---- MODULE Spec2Model ----
(* Model of synapse/federation/federation_base.py (FederationBase):           *)
(* _check_sigs_and_hashes and _check_sigs_and_hash_and_fetch, with the        *)
(* Twisted callback chains of the per-pdu deferreds.                          *)
EXTENDS Integers, Sequences, FiniteSets, TLC

(* ---------------- bounds ---------------- *)
MaxBatch == 2

(* ---------------- value universe ---------------- *)
EventIds == {"e1", "e2"}
Servers == {"A", "B"}
Contents == {"a", "b"}

\* the servers the caller may be querying (the origin argument)
RequestOrigins == Servers

OriginOf(id) == IF id = "e1" THEN "A" ELSE "B"

\* The declared content hash is the hash of content "a"; content "b" is a
\* payload that does not match the declared hash.
HashOf(c) == IF c = "" THEN "h_" ELSE IF c = "a" THEN "h_a" ELSE IF c = "b" THEN "h_b" ELSE "h_x"

Event(id, c, h) == [event_id |-> id, origin |-> OriginOf(id), content |-> c, hashes |-> h]

Events == {Event(id, c, "h_a") : id \in EventIds, c \in Contents}

NoPdu == [event_id |-> "", origin |-> "", content |-> "", hashes |-> ""]

Batches == UNION {[1..n -> Events] : n \in 0..MaxBatch}

(* ---------------- collaborators ---------------- *)
\* synapse.events.utils.prune_event: keeps the protected fields, strips content
prune_event(pdu) == [pdu EXCEPT !.content = ""]

\* synapse.crypto.event_signing.check_event_content_hash
check_event_content_hash(pdu) == HashOf(pdu.content) = pdu.hashes

\* what store.get_event(event_id, allow_rejected=True, allow_none=True) holds
StoredCopy(id) == Event(id, "stored", HashOf("stored"))

\* what get_pdu(destinations=[pdu.origin], event_id=...) would deliver
FetchedCopy(id) == Event(id, "fetched", HashOf("fetched"))

\* outlier=False, the default of the parameter at line 35
Outlier == FALSE

\* timeout=10000 at line 81
Timeout == 10000

\* the arguments of store.get_event at lines 65-69, for the item at index i
GetEventRequest(i, pdu) ==
  [item |-> i, event_id |-> pdu.event_id, allow_rejected |-> TRUE, allow_none |-> TRUE]

\* the arguments of get_pdu at lines 77-82, for the item at index i
GetPduRequest(i, pdu) ==
  [item |-> i, destinations |-> <<pdu.origin>>, event_id |-> pdu.event_id,
   outlier |-> Outlier, timeout |-> Timeout]

(* ---------------- deferred results ---------------- *)
R(tag, pdu) == [tag |-> tag, pdu |-> pdu]
Pending == R("pending", NoPdu)
FailureTags == {"SynapseError", "Exception"}
IsFailure(r) == r.tag \in FailureTags

VARIABLES
  pdus,           \* the caller's list of PDUs
  origin,         \* the origin argument of _check_sigs_and_hash_and_fetch
  keyring,        \* verdict of keyring.verify_json_objects_for_server per event
  store,          \* per event id: what the event store holds, or "error" when the lookup raises
  remote,         \* answer of get_pdu per event id
  call,           \* which method was called: "none", "check", "fetch"
  redacted_pdus,  \* local of _check_sigs_and_hashes
  checked,        \* per pdu: result of the deferred after the callbacks of _check_sigs_and_hashes
  deferreds,      \* per pdu: current result of the deferred at the end of its chain
  signed_pdus,    \* accumulator of _check_sigs_and_hash_and_fetch
  ret,            \* outcome of the _check_sigs_and_hash_and_fetch call
  log,            \* logger.warn lines
  hash_checks,    \* check_event_content_hash calls made: <<item, event>>
  store_calls,    \* store.get_event calls issued
  get_pdu_calls   \* get_pdu calls issued

vars == <<pdus, origin, keyring, store, remote, call, redacted_pdus, checked,
          deferreds, signed_pdus, ret, log, hash_checks, store_calls, get_pdu_calls>>

env == <<origin, keyring, store, remote>>

Idx == 1..Len(pdus)

NoRet == [state |-> "none", value |-> <<>>, error |-> ""]

(* ---------------- _check_sigs_and_hashes callbacks ---------------- *)
check_callback_always_redacts(pdu, redacted) ==
  [res |-> R("pdu", redacted), warn |-> {}, hashed |-> {pdu}]

check_callback_never_redacts(pdu, redacted) ==
  [res |-> R("pdu", pdu), warn |-> {}, hashed |-> {pdu}]

check_callback_hashes_redacted(pdu, redacted) ==
  IF ~check_event_content_hash(redacted)
    THEN [res |-> R("pdu", redacted), hashed |-> {redacted},
          warn |-> {<<"Event content has been tampered, redacting", pdu.event_id>>}]
    ELSE [res |-> R("pdu", pdu), warn |-> {}, hashed |-> {redacted}]

\* callback(_, pdu, redacted), lines 127-134
check_callback(pdu, redacted) ==
  IF ~check_event_content_hash(pdu)
    THEN [res |-> R("pdu", redacted), hashed |-> {pdu},
          warn |-> {<<"Event content has been tampered, redacting", pdu.event_id>>}]
    ELSE [res |-> R("pdu", pdu), warn |-> {}, hashed |-> {pdu}]

check_errback_redacts(failure, pdu) ==
  IF failure = "SynapseError"
    THEN [res |-> R("pdu", prune_event(pdu)), hashed |-> {},
          warn |-> {<<"Signature check failed for", pdu.event_id>>}]
    ELSE [res |-> R(failure, NoPdu), warn |-> {}, hashed |-> {}]

\* errback(failure, pdu), lines 136-142: failure.trap re-raises anything that
\* is not a SynapseError; a SynapseError is logged and returned
check_errback(failure, pdu) ==
  IF failure = "SynapseError"
    THEN [res |-> R("SynapseError", NoPdu), hashed |-> {},
          warn |-> {<<"Signature check failed for", pdu.event_id>>}]
    ELSE [res |-> R(failure, NoPdu), warn |-> {}, hashed |-> {}]

(* ---------------- _check_sigs_and_hash_and_fetch callbacks ---------------- *)
fetch_callback_appends_twice(pdu, acc) ==
  [res |-> R("None", NoPdu), signed_pdus |-> Append(Append(acc, pdu), pdu), warn |-> {},
   store_calls |-> {}, get_pdu_calls |-> {}]

fetch_callback_prepends(pdu, acc) ==
  [res |-> R("None", NoPdu), signed_pdus |-> <<pdu>> \o acc, warn |-> {},
   store_calls |-> {}, get_pdu_calls |-> {}]

\* callback(pdu), lines 58-59
fetch_callback(pdu, acc) ==
  [res |-> R("None", NoPdu), signed_pdus |-> Append(acc, pdu), warn |-> {},
   store_calls |-> {}, get_pdu_calls |-> {}]

fetch_errback_returns_failure(failure, pdu, acc) ==
  [res |-> R(failure, NoPdu), signed_pdus |-> acc, warn |-> {},
   store_calls |-> {}, get_pdu_calls |-> {}]

\* errback(failure, pdu), lines 61-93.  The function body contains yield and
\* the function is not wrapped in defer.inlineCallbacks: calling it builds a
\* generator object and runs none of its body.  The generator object is the
\* (non-failure) result of the deferred.
fetch_errback(failure, pdu, acc) ==
  [res |-> R("generator", NoPdu), signed_pdus |-> acc, warn |-> {},
   store_calls |-> {}, get_pdu_calls |-> {}]

gatherResults_fires_on_first(ds, prev, acc) ==
  IF prev.state # "pending" THEN prev
  ELSE IF \E i \in DOMAIN ds : IsFailure(ds[i])
    THEN [state |-> "raised", value |-> <<>>,
          error |-> (CHOOSE t \in FailureTags : \E i \in DOMAIN ds : ds[i].tag = t)]
  ELSE IF ds = <<>> \/ \E i \in DOMAIN ds : ds[i].tag # "pending"
    THEN [state |-> "returned", value |-> acc, error |-> ""]
  ELSE prev

gatherResults_never_fires(ds, prev, acc) ==
  IF prev.state # "pending" THEN prev
  ELSE IF \E i \in DOMAIN ds : IsFailure(ds[i])
    THEN [state |-> "raised", value |-> <<>>,
          error |-> (CHOOSE t \in FailureTags : \E i \in DOMAIN ds : ds[i].tag = t)]
  ELSE prev

\* defer.gatherResults(deferreds, consumeErrors=True).addErrback(unwrapFirstError)
\* followed by defer.returnValue(signed_pdus), lines 98-103
gatherResults(ds, prev, acc) ==
  IF prev.state # "pending" THEN prev
  ELSE IF \E i \in DOMAIN ds : IsFailure(ds[i])
    THEN [state |-> "raised", value |-> <<>>,
          error |-> (CHOOSE t \in FailureTags : \E i \in DOMAIN ds : ds[i].tag = t)]
  ELSE IF \A i \in DOMAIN ds : ds[i].tag # "pending"
    THEN [state |-> "returned", value |-> acc, error |-> ""]
  ELSE prev

(* ---------------- initial state ---------------- *)
Init ==
  /\ pdus \in Batches
  /\ origin \in RequestOrigins
  /\ keyring \in [EventIds -> {"ok", "SynapseError", "Exception"}]
  /\ store \in [EventIds -> {"absent", "stored", "rejected", "error"}]
  /\ remote \in [EventIds -> {"pdu", "none", "error"}]
  \* get_pdu sits behind failure.trap(SynapseError) and the store lookup
  \* (lines 62-72): its answer is drawn only for events that fail with a
  \* SynapseError and have no stored copy, and is "none" for the others
  /\ \A id \in EventIds :
       (keyring[id] # "SynapseError" \/ store[id] # "absent") => remote[id] = "none"
  /\ call = "none"
  /\ redacted_pdus = <<>>
  /\ checked = <<>>
  /\ deferreds = <<>>
  /\ signed_pdus = <<>>
  /\ ret = NoRet
  /\ log = {}
  /\ hash_checks = {}
  /\ store_calls = {}
  /\ get_pdu_calls = {}

(* ---------------- actions ---------------- *)
IssueChecks_in_place ==
  /\ redacted_pdus' = [i \in Idx |-> prune_event(pdus[i])]
  /\ checked' = [i \in Idx |-> Pending]
  /\ deferreds' = [i \in Idx |-> Pending]
  /\ pdus' = redacted_pdus'

IssueChecks_misaligned ==
  /\ redacted_pdus' = [i \in Idx |-> prune_event(pdus[Len(pdus) + 1 - i])]
  /\ checked' = [i \in Idx |-> Pending]
  /\ deferreds' = [i \in Idx |-> Pending]
  /\ pdus' = pdus

\* the body of _check_sigs_and_hashes(pdus), lines 117-151: prune every pdu,
\* hand the pruned forms to the keyring, chain the callbacks on the deferreds
IssueChecks ==
  /\ redacted_pdus' = [i \in Idx |-> prune_event(pdus[i])]
  /\ checked' = [i \in Idx |-> Pending]
  /\ deferreds' = [i \in Idx |-> Pending]
  /\ pdus' = pdus

\* a direct call of _check_sigs_and_hashes(pdus), lines 108-151
CheckSigsAndHashes ==
  /\ call = "none"
  /\ call' = "check"
  /\ IssueChecks
  /\ UNCHANGED <<env, signed_pdus, ret, log, hash_checks, store_calls, get_pdu_calls>>

\* a call of _check_sigs_and_hash_and_fetch(origin, pdus), lines 54-56, 95-103
CheckSigsAndHashAndFetch ==
  /\ call = "none"
  /\ call' = "fetch"
  /\ signed_pdus' = <<>>
  /\ IssueChecks
  /\ ret' = gatherResults(deferreds', [NoRet EXCEPT !.state = "pending"], signed_pdus')
  /\ UNCHANGED <<env, log, hash_checks, store_calls, get_pdu_calls>>

\* the rest of the chain of deferred i once _check_sigs_and_hashes's pair of
\* callbacks produced c: the pair added at line 96, then the gather
Chain(i, c) ==
  /\ checked' = [checked EXCEPT ![i] = c.res]
  /\ hash_checks' = hash_checks \cup {<<i, e>> : e \in c.hashed}
  /\ IF call = "fetch"
       THEN LET f == IF IsFailure(c.res)
                       THEN fetch_errback(c.res.tag, pdus[i], signed_pdus)
                       ELSE fetch_callback(c.res.pdu, signed_pdus)
            IN /\ deferreds' = [deferreds EXCEPT ![i] = f.res]
               /\ signed_pdus' = f.signed_pdus
               /\ log' = log \cup c.warn \cup f.warn
               /\ store_calls' = store_calls \cup f.store_calls
               /\ get_pdu_calls' = get_pdu_calls \cup f.get_pdu_calls
               /\ ret' = gatherResults(deferreds', ret, signed_pdus')
       ELSE /\ deferreds' = [deferreds EXCEPT ![i] = c.res]
            /\ log' = log \cup c.warn
            /\ UNCHANGED <<signed_pdus, store_calls, get_pdu_calls, ret>>
  /\ UNCHANGED <<pdus, env, call, redacted_pdus>>

\* the keyring verifies the signature of pdu i: the deferred fires its callbacks
VerifySucceeded(i) ==
  /\ call # "none"
  /\ deferreds[i].tag = "pending"
  /\ keyring[redacted_pdus[i].event_id] = "ok"
  /\ Chain(i, check_callback(pdus[i], redacted_pdus[i]))

\* the keyring fails for pdu i: the deferred fires its errbacks
VerifyFailed(i) ==
  /\ call # "none"
  /\ deferreds[i].tag = "pending"
  /\ keyring[redacted_pdus[i].event_id] # "ok"
  /\ Chain(i, check_errback(keyring[redacted_pdus[i].event_id], pdus[i]))

Next ==
  \/ CheckSigsAndHashes
  \/ CheckSigsAndHashAndFetch
  \/ \E i \in Idx : VerifySucceeded(i)
  \/ \E i \in Idx : VerifyFailed(i)

Spec == Init /\ [][Next]_vars

\* The keyring resolves every deferred it handed out: a pending deferred
\* eventually fires its callbacks or its errbacks.
Fairness ==
  /\ WF_vars(\E i \in Idx : VerifySucceeded(i))
  /\ WF_vars(\E i \in Idx : VerifyFailed(i))

FairSpec == Spec /\ Fairness

(* ---------------- vocabulary of the properties ---------------- *)
InList(e, s) == \E k \in 1..Len(s) : s[k] = e
Started == call # "none"
Resolved(i) == Started /\ checked[i].tag # "pending"
AllResolved == Started /\ \A i \in Idx : deferreds[i].tag # "pending"
Returned == call = "fetch" /\ ret.state = "returned"
SigOk(i) == keyring[pdus[i].event_id] = "ok"
SigErr(i) == keyring[pdus[i].event_id] = "SynapseError"
Unexpected(i) == keyring[pdus[i].event_id] = "Exception"
HashOk(i) == check_event_content_hash(pdus[i])
InStore(i) == store[pdus[i].event_id] \in {"stored", "rejected"}
Absent(i) == store[pdus[i].event_id] = "absent"
\* the forms in which item i may be accepted
Forms(i) == {pdus[i], prune_event(pdus[i]),
             StoredCopy(pdus[i].event_id), FetchedCopy(pdus[i].event_id)}
Injective(f) == \A a, b \in DOMAIN f : f[a] = f[b] => a = b

\* C1: an event whose signature check succeeds and whose content hash is valid
\* is the outcome of its deferred in _check_sigs_and_hashes, is in the
\* accumulator of _check_sigs_and_hash_and_fetch once its deferred fired, and
\* is in the returned list.
C1_VerifiedKept ==
  \A i \in Idx :
    (Resolved(i) /\ SigOk(i) /\ HashOk(i)) =>
       /\ checked[i] = R("pdu", pdus[i])
       /\ (call = "fetch" => InList(pdus[i], signed_pdus))
       /\ (Returned => InList(pdus[i], ret.value))

C1_Witness ==
  /\ Returned
  /\ Len(pdus) = 2
  /\ SigOk(1) /\ HashOk(1) /\ InList(pdus[1], ret.value)
  /\ ~HashOk(2)

\* C2: an event whose signature check succeeds and whose content hash check
\* fails comes out of _check_sigs_and_hashes as its pruned form, with the same
\* event id; the list returned by _check_sigs_and_hash_and_fetch holds the
\* pruned form and not the original event.
C2_TamperedRedacted ==
  \A i \in Idx :
    (Resolved(i) /\ SigOk(i) /\ ~HashOk(i)) =>
       /\ checked[i] = R("pdu", prune_event(pdus[i]))
       /\ checked[i].pdu.event_id = pdus[i].event_id
       /\ checked[i].pdu # pdus[i]
       /\ (Returned => /\ InList(prune_event(pdus[i]), ret.value)
                       /\ ~InList(pdus[i], ret.value))

C2_Witness ==
  /\ Returned
  /\ \E i \in Idx : /\ SigOk(i) /\ ~HashOk(i)
                    /\ InList(prune_event(pdus[i]), ret.value)
  /\ \E j \in Idx : SigOk(j) /\ HashOk(j)

\* C3 (as claimed): when _check_sigs_and_hash_and_fetch returns, the stored
\* copy of every event whose signature check failed with a SynapseError and
\* whose id is in the event store (rejected or not) is in the returned list.
C3_StoredCopyReturned ==
  Returned =>
    \A i \in Idx :
      (SigErr(i) /\ InStore(i)) => InList(StoredCopy(pdus[i].event_id), ret.value)

\* C4 (as claimed): when _check_sigs_and_hash_and_fetch returns, the fetched
\* copy of every event whose signature check failed with a SynapseError, that
\* is absent from the store, whose origin differs from the request origin and
\* that get_pdu delivers, is in the returned list.
C4_FetchedCopyReturned ==
  Returned =>
    \A i \in Idx :
      (SigErr(i) /\ Absent(i) /\ pdus[i].origin # origin
         /\ remote[pdus[i].event_id] = "pdu")
        => InList(FetchedCopy(pdus[i].event_id), ret.value)

C6_UnexpectedAborts ==
  (call = "fetch" /\ Cardinality({i \in Idx : Unexpected(i)}) = 1)
     => ret.state # "returned"

C8_OnePerItem ==
  call = "fetch" =>
    /\ \E f \in [1..Len(signed_pdus) -> Idx] :
         /\ Injective(f)
         /\ \A k \in 1..Len(signed_pdus) :
              deferreds[f[k]].tag # "pending" /\ signed_pdus[k] \in Forms(f[k])
    /\ Len(signed_pdus) <= Len(pdus)
    /\ Len(ret.value) <= Len(pdus)

C8_Witness ==
  /\ Returned
  /\ Len(pdus) = 2
  /\ pdus[1] = pdus[2]
  /\ Len(ret.value) = 2

\* C9: an outcome of _check_sigs_and_hashes that is an event (original or
\* pruned) belongs to an item whose signature check succeeded, and every
\* original or pruned form of an input in the accumulator or the returned list
\* is the form of an item whose signature check succeeded.
C9_RedactedOnlyIfSigned ==
  /\ \A i \in Idx : (Resolved(i) /\ checked[i].tag = "pdu") => SigOk(i)
  /\ \A i \in Idx : (Resolved(i) /\ ~SigOk(i)) => checked[i].tag \in FailureTags
  /\ \A k \in 1..Len(signed_pdus) :
       (\E i \in Idx : signed_pdus[k] \in {pdus[i], prune_event(pdus[i])})
         => \E i \in Idx : SigOk(i) /\ signed_pdus[k] \in {pdus[i], prune_event(pdus[i])}
  /\ \A k \in 1..Len(ret.value) :
       (\E i \in Idx : ret.value[k] \in {pdus[i], prune_event(pdus[i])})
         => \E i \in Idx : SigOk(i) /\ ret.value[k] \in {pdus[i], prune_event(pdus[i])}

C9_Witness ==
  /\ Returned
  /\ Len(pdus) = 2
  /\ SigErr(1) /\ ~HashOk(1)
  /\ SigOk(2) /\ ~HashOk(2)
  /\ ret.value = <<prune_event(pdus[2])>>

\* C10: no step of either method changes the caller's list of pdus.
C10_InputUnchanged == [][pdus' = pdus]_vars

C10_Witness ==
  /\ Returned
  /\ Len(pdus) = 2
  /\ ~HashOk(1) /\ SigOk(1)
  /\ ret.value # pdus

\* C11 (as claimed): when _check_sigs_and_hash_and_fetch has returned, exactly
\* one get_pdu call has been issued for every item whose signature check
\* failed with a SynapseError, that is absent from the store and whose origin
\* differs from the request origin: to the item's own origin alone, for the
\* item's event id, with the caller's outlier and the timeout.
C11_ExactlyOneFetch ==
  Returned =>
    \A i \in Idx :
      (SigErr(i) /\ Absent(i) /\ pdus[i].origin # origin) =>
        {c \in get_pdu_calls : c.item = i} = {GetPduRequest(i, pdus[i])}

\* C12 (as claimed): when _check_sigs_and_hash_and_fetch has returned, the
\* store has been looked up for every item whose signature check failed with a
\* SynapseError, a get_pdu call was issued only for items whose lookup was
\* made and found nothing, and none for an item whose lookup finds a copy.
C12_LookupBeforeFetch ==
  Returned =>
    /\ \A i \in Idx : SigErr(i) => GetEventRequest(i, pdus[i]) \in store_calls
    /\ \A c \in get_pdu_calls :
         /\ GetEventRequest(c.item, pdus[c.item]) \in store_calls
         /\ ~InStore(c.item)

\* the outcome _check_sigs_and_hashes owes to the item at index i
Outcome(i) ==
  IF SigOk(i)
    THEN IF HashOk(i) THEN R("pdu", pdus[i]) ELSE R("pdu", prune_event(pdus[i]))
    ELSE R(keyring[pdus[i].event_id], NoPdu)

\* C13: _check_sigs_and_hashes returns one deferred per input pdu, and the
\* deferred at index i yields the outcome of the pdu at index i (the pdu, its
\* pruned form or its failure), for every batch size.
C13_OneOutcomePerInputInOrder ==
  Started =>
    /\ DOMAIN checked = Idx
    /\ DOMAIN deferreds = Idx
    /\ DOMAIN redacted_pdus = Idx
    /\ \A i \in Idx :
         Resolved(i) => /\ checked[i] = Outcome(i)
                        /\ (call = "check" => deferreds[i] = Outcome(i))

C13_Witness ==
  /\ call = "check"
  /\ Len(pdus) = 2
  /\ deferreds[1] = R("SynapseError", NoPdu)
  /\ deferreds[2] = R("pdu", prune_event(pdus[2]))

\* C15 (as claimed): when _check_sigs_and_hash_and_fetch has returned, for
\* every item whose signature check failed with a SynapseError, that is absent
\* from the store and whose origin is the request origin: no get_pdu call was
\* issued for it, no event with its id is in the returned list, and the
\* warning "Failed to find copy of <event_id> with valid signature" is logged.
C15_OwnOriginDroppedWithWarning ==
  Returned =>
    \A i \in Idx :
      (SigErr(i) /\ Absent(i) /\ pdus[i].origin = origin) =>
        /\ \A c \in get_pdu_calls : c.item # i
        /\ \A k \in 1..Len(ret.value) : ret.value[k].event_id # pdus[i].event_id
        /\ <<"Failed to find copy of", pdus[i].event_id>> \in log

\* C16: the keyring is asked about the pruned form of each pdu, under the
\* pdu's origin; check_event_content_hash is called on the original pdu of an
\* item, only once that item's signature verification has succeeded, for every
\* such item, and never for an item whose verification failed.
C16_SigOnPrunedHashOnOriginal ==
  Started =>
    /\ \A i \in Idx : /\ redacted_pdus[i] = prune_event(pdus[i])
                      /\ redacted_pdus[i].origin = pdus[i].origin
    /\ \A h \in hash_checks :
         /\ h[2] = pdus[h[1]]
         /\ checked[h[1]].tag = "pdu"
         /\ SigOk(h[1])
    /\ \A i \in Idx : (Resolved(i) /\ SigOk(i)) => <<i, pdus[i]>> \in hash_checks
    /\ \A i \in Idx : ~SigOk(i) => \A h \in hash_checks : h[1] # i

C16_Witness ==
  /\ Started
  /\ Len(pdus) = 2
  /\ Resolved(1) /\ SigOk(1) /\ ~HashOk(1) /\ <<1, pdus[1]>> \in hash_checks
  /\ Resolved(2) /\ SigErr(2)

\* C17: a step in which the deferred of an item fires appends the accepted
\* form of that item at the end of the accumulator when its signature check
\* succeeded, whatever its index, and leaves the accumulator alone otherwise;
\* an item whose check is still pending and will succeed can be accepted
\* whatever the state of the other items.
C17_CompletionOrder ==
  [][\A i \in Idx :
       /\ (call = "fetch" /\ deferreds[i].tag = "pending" /\ deferreds'[i].tag # "pending")
            => IF SigOk(i)
                 THEN signed_pdus' = Append(signed_pdus, checked'[i].pdu)
                 ELSE signed_pdus' = signed_pdus
       /\ (call = "fetch" /\ deferreds[i].tag = "pending" /\ SigOk(i))
            => ENABLED VerifySucceeded(i)]_vars

C17_Witness ==
  /\ Returned
  /\ Len(pdus) = 2
  /\ checked[1].pdu # checked[2].pdu
  /\ ret.value = <<checked[2].pdu, checked[1].pdu>>

\* C18 (as claimed): once the deferred of an item has failed with an
\* unexpected error, that error is the result of the
\* _check_sigs_and_hash_and_fetch call.
C18_UnexpectedIsResult ==
  \A i \in Idx :
    (call = "fetch" /\ Resolved(i) /\ Unexpected(i)) =>
       ret.state = "raised" /\ ret.error = "Exception"

\* C19 (as claimed): when the store lookup raises for an item whose signature
\* check failed with a SynapseError, _check_sigs_and_hash_and_fetch does not
\* return a list, and has raised once every deferred has fired.
C19_StoreErrorPropagates ==
  \A i \in Idx :
    (call = "fetch" /\ Resolved(i) /\ SigErr(i) /\ store[pdus[i].event_id] = "error") =>
       /\ ret.state # "returned"
       /\ (AllResolved => ret.state = "raised")

\* C20: when the keyring resolves every signature check, every call of
\* _check_sigs_and_hash_and_fetch eventually returns a list or raises; for the
\* empty batch it has returned the empty list as soon as it is called, without
\* a store lookup or a remote fetch.
C20_Terminates ==
  /\ (call = "fetch") ~> (ret.state \in {"returned", "raised"})
  /\ [](call = "fetch" /\ pdus = <<>> =>
          /\ ret.state = "returned" /\ ret.value = <<>>
          /\ store_calls = {} /\ get_pdu_calls = {})

C20_Witness ==
  /\ Returned
  /\ Len(pdus) = 2
  /\ SigErr(1) /\ InStore(1)
  /\ SigOk(2)
  /\ Len(ret.value) = 1

====
